---- MODULE Spec2Model ----
(***************************************************************************)
(* NoteKeep: the link ingestion and enrichment pipeline.                   *)
(*                                                                         *)
(* The store (links, tags, collections) is the committed database.  A URL  *)
(* string is modelled by its components (scheme, host, path, the query as  *)
(* the sequence of its key=value pairs, fragment); two URL strings are     *)
(* equal exactly when their components are.  Time is counted in days.      *)
(***************************************************************************)
EXTENDS Integers, Sequences, FiniteSets, TLC

VARIABLES
    notes,        \* the notes table: a sequence of rows
    links,        \* the links table: a sequence of rows, a row's id is its position
    submitted,    \* per link id, the URL string handed to the ingestion entry point
    tags,         \* names of the rows of the tags table
    collections,  \* names of the rows of the collections table
    now,          \* datetime.now(), in days
    ticks,        \* how often the clock has advanced
    refreshq,     \* link ids with a title refresh scheduled and not yet run
    resp,         \* what the last operation answered
    log,          \* per-link events of the last operation, in order
    auditor,      \* the missing-image job run step by step: its session and its queue
    refresher,    \* the title refresh task run step by step: its session
    requests,     \* the create requests in flight, each with its position
    poller        \* the chat poller: its cursor and the updates the chat server holds

vars == <<notes, links, submitted, tags, collections, refreshq, now, ticks, resp, log, auditor,
          refresher, requests, poller>>

----------------------------------------------------------------------------
(* Bounds of the model *)

MaxLinks == 2        \* rows of the links table
MaxBatch == 1        \* URLs per chat message, lines per import, batch_size
MaxAudit == 1        \* rows of the links table while the auditor is studied
MaxTicks == 2        \* advances of the clock
TickDays == 100       \* days per advance of the clock
MaxNotes == 1        \* rows of the notes table
MaxRequests == 2     \* create requests in flight at a time
MaxUpdates == 2      \* updates the chat server makes

(* Program constants *)

CoolDownDays == 180  \* check_link_image: not_found is not re-checked before
DefaultMaxAge == 90  \* check_missing_images: max_age_days
MaxTagsPerLink == 4
MaxTextLen == 4000
MaxUrlsPerMessage == 10
MaxUrlLen == 2048  \* get_or_create_tags: at most 4 tags

None == "None"
NoneInt == 0 - 1

----------------------------------------------------------------------------
(* Strings that may hold a URL: a URL by its components, any other text with
   an empty scheme and host, and Python's None. *)

Url(path, q, frag) ==
    [scheme |-> "https", host |-> "example.com", path |-> path, q |-> q, frag |-> frag]

HostUrl(host, path) ==
    [scheme |-> "https", host |-> host, path |-> path, q |-> <<>>, frag |-> ""]

Text(s) == [scheme |-> "", host |-> "", path |-> s, q |-> <<>>, frag |-> ""]

NoneStr == [scheme |-> "None", host |-> "", path |-> "", q |-> <<>>, frag |-> ""]

UTM_PARAMS ==
    {"utm_source", "utm_medium", "utm_campaign", "utm_term", "utm_content",
     "utm_id", "utm_source_platform", "utm_creative_format", "utm_marketing_tactic"}

(* parse_qs(query, keep_blank_values=True) followed by urlencode(doseq=True):
   the keys in order of first occurrence, each with its values in order. *)
RECURSIVE KeysInOrder(_, _)
KeysInOrder(q, seen) ==
    IF q = <<>> THEN <<>>
    ELSE IF Head(q)[1] \in seen THEN KeysInOrder(Tail(q), seen)
    ELSE <<Head(q)[1]>> \o KeysInOrder(Tail(q), seen \cup {Head(q)[1]})

PairsOfKey(q, k) == SelectSeq(q, LAMBDA p : p[1] = k)

(* quote_plus(v) of the value parse_qs decoded: a space written %20 or + is
   written + again, a %FF comes back as the replacement character. *)
Requote(v) ==
    CASE v = "a%20b" -> "a+b"
      [] v = "%FF"   -> "%EF%BF%BD"     \* undecodable byte, decoded as U+FFFD
      [] OTHER       -> v

(* urlparse(url).scheme: the scheme in lower case *)
LowerScheme(scheme) == IF scheme = "HTTPS" THEN "https" ELSE scheme

RECURSIVE EncodeKeys(_, _)
EncodeKeys(q, keys) ==
    IF keys = <<>> THEN <<>>
    ELSE LET ps == PairsOfKey(q, Head(keys))
         IN  [i \in 1..Len(ps) |-> <<ps[i][1], Requote(ps[i][2])>>]
             \o EncodeKeys(q, Tail(keys))

(* A normalizer that re-encodes the query and drops no key. *)
normalize_url_keeps_all(url) ==
    IF url.q = <<>> THEN url
    ELSE [url EXCEPT !.q = EncodeKeys(url.q, KeysInOrder(url.q, {}))]

(* A normalizer that drops the first tracking pair it meets and no other. *)
normalize_url_first_only(url) ==
    LET hits == {i \in DOMAIN url.q : url.q[i][1] \in UTM_PARAMS}
        first == CHOOSE i \in hits : \A j \in hits : i <= j
    IN  IF hits = {} THEN url
        ELSE [url EXCEPT !.scheme = LowerScheme(@),
                         !.q = SubSeq(url.q, 1, first - 1)
                               \o SubSeq(url.q, first + 1, Len(url.q))]

normalize_url(url) ==
    IF url.q = <<>> THEN url                      \* line 70: returned as it came
    ELSE LET keys     == KeysInOrder(url.q, {})
             filtered == SelectSeq(keys, LAMBDA k : k \notin UTM_PARAMS)
         IN  [url EXCEPT !.scheme = LowerScheme(@),
                         !.q = EncodeKeys(url.q, filtered)]

(* str(payload.url) of the validated HttpUrl field: an empty path is written "/". *)
HttpUrlStr(url) == IF url.path = "" THEN [url EXCEPT !.path = "/"] ELSE url

(* LinkCreate(url=...) accepts http and https URLs only. *)
ValidHttpUrl(url) == url.scheme \in {"http", "https"}

----------------------------------------------------------------------------
(* The network, as fetch_link_metadata sees it: what the GET of a page did. *)

Net(kind, status, image, title) ==
    [kind |-> kind, status |-> status, image |-> image, title |-> title]

NoFetch  == Net("none", NoneInt, None, None)      \* no request was issued
OkImage  == Net("http", 200, "og.png", "Page")    \* 200, og:image and a title
OkPlain  == Net("http", 200, None, "Page")        \* 200, a title, no og:image
Http404  == Net("http", 404, None, None)
Http410  == Net("http", 410, None, None)
Http500  == Net("http", 500, None, None)
NetError == Net("neterr", NoneInt, None, None)    \* timeout, DNS, connection refused
Raises   == Net("raise", NoneInt, None, None)     \* the call raised instead of returning
OkNoTitle == Net("http", 200, None, None)        \* 200, neither title nor og:image
OkSelf   == Net("http", 200, None, "<url>")       \* 200, the page is titled with its own address

(* A transient failure of a fetch: a timeout, a DNS or connection failure, a 5xx. *)
Transient(net) == net.kind = "neterr" \/ (net.kind = "http" /\ net.status >= 500)

NetTitle(net) == IF net.title = None THEN NoneStr ELSE Text(net.title)

Meta(title, image, status_code, is_accessible) ==
    [title |-> title, image |-> image, status_code |-> status_code,
     is_accessible |-> is_accessible]

fetch_link_metadata(net) ==
    IF net.kind = "http" /\ net.status < 400
    THEN Meta(NetTitle(net), net.image, net.status, TRUE)
    ELSE IF net.kind = "http"
    THEN Meta(NoneStr, None, net.status, FALSE)   \* httpx.HTTPStatusError
    ELSE Meta(NoneStr, None, NoneInt, FALSE)      \* httpx.HTTPError, Exception

----------------------------------------------------------------------------
(* The store *)

Link(url, title, image_url, ics, ica, link_status, code, lca) ==
    [url |-> url, title |-> title, image_url |-> image_url,
     image_check_status |-> ics, image_checked_at |-> ica,
     link_status |-> link_status, http_status_code |-> code, last_checked_at |-> lca]

Lower(s) == IF s = "Reading" THEN "reading" ELSE s

SetMin(S) == CHOOSE x \in S : \A y \in S : x <= y

(* get_or_create_collection: the collections after the call. *)
get_or_create_collection(colls, name) ==
    IF name = None THEN colls
    ELSE IF \E c \in colls : Lower(c) = Lower(name) THEN colls
    ELSE colls \cup {name}

_normalize_tag(tag) == IF tag = "youtu.be" THEN "youtube" ELSE Lower(tag)

(* get_or_create_tags: the tags after the call. *)
get_or_create_tags(tgs, names) ==
    LET cleaned == {_normalize_tag(t) : t \in names}
        kept    == IF Cardinality(cleaned) > MaxTagsPerLink
                   THEN CHOOSE S \in SUBSET cleaned : Cardinality(S) = MaxTagsPerLink
                   ELSE cleaned
    IN  tgs \cup {t \in kept : ~(\E e \in tgs : Lower(e) = t)}

(* A duplicate check that compares the stored strings themselves. *)
get_link_by_url_exact(ls, url) ==
    LET hits == {i \in DOMAIN ls : ls[i].url = url}
    IN  IF hits = {} THEN 0 ELSE SetMin(hits)

(* get_link_by_url: the id of the first row whose normalized URL equals the
   candidate's, 0 for None. *)
get_link_by_url(ls, url) ==
    LET normalized_url == normalize_url(url)
        hits == {i \in DOMAIN ls : normalize_url(ls[i].url) = normalized_url}
    IN  IF hits = {} THEN 0 ELSE SetMin(hits)

Payload(url, title, image_url, tgs, collection) ==
    [url |-> url, title |-> title, image_url |-> image_url, tags |-> tgs,
     collection |-> collection]

(* create_link, the image it ends with: the supplied one, else the fetched one.
   net is what the synchronous fetch met; in_loop says the caller runs on the
   event loop, where asyncio.run raises RuntimeError before any request. *)
CreateNet(payload, net, in_loop) ==
    IF payload.image_url # None THEN NoFetch
    ELSE IF in_loop THEN Raises
    ELSE net

(* A create_link without the try/except around the fetch. *)
FetchErrorEscapes_unguarded(n) == n.kind = "raise"

(* create_link, lines 241-247: "except Exception: pass" lets no error of the
   fetch out of create_link. *)
FetchErrorEscapes(n) == FALSE

CreateImage(payload, net, in_loop) ==
    LET n == CreateNet(payload, net, in_loop)
    IN  IF payload.image_url # None THEN payload.image_url
        ELSE IF n.kind \in {"raise", "none"} THEN None
        ELSE fetch_link_metadata(n).image

(* A create_link that stamps image_checked_at on every new link. *)
create_link_always_stamped(payload, net, in_loop, t) ==
    LET image_url == CreateImage(payload, net, in_loop)
        url       == HttpUrlStr(payload.url)
        title     == IF payload.title \notin {NoneStr, Text("")} THEN payload.title ELSE url
    IN  Link(url, title, image_url,
             IF image_url # None THEN "success" ELSE "pending",
             t, "active", NoneInt, t)

create_link(payload, net, in_loop, t) ==
    LET image_url == CreateImage(payload, net, in_loop)
        url       == HttpUrlStr(payload.url)
        title     == IF payload.title \notin {NoneStr, Text("")} THEN payload.title ELSE url
    IN  Link(url, title, image_url,
             IF image_url # None THEN "success" ELSE "pending",
             IF image_url # None THEN t ELSE NoneInt,
             "active", NoneInt, t)

CreateWrote == {"url", "title", "image_url", "image_check_status", "image_checked_at",
                "link_status", "last_checked_at"}

(* What an operation did to one link: the request it issued for it (NoFetch
   when none) and the columns it assigned. *)
Event(id, url, kind, net, wrote) ==
    [id |-> id, url |-> url, kind |-> kind, net |-> net, wrote |-> wrote]

(* str.strip(): whitespace before the scheme of a URL string or around a text *)
Strip(value) ==
    CASE value.scheme = " https"                          -> [value EXCEPT !.scheme = "https"]
      [] value.scheme = "" /\ value.path = "   "          -> [value EXCEPT !.path = ""]
      [] value.scheme = "" /\ value.path = " Custom Title " -> [value EXCEPT !.path = "Custom Title"]
      [] OTHER                                            -> value

(* tasks._normalize_value: "" for None, else the string stripped. *)
_normalize_value(value) == IF value = NoneStr THEN Text("") ELSE Strip(value)

(* A refresh test that compares title and url as they are stored. *)
needs_title_refresh_exact(link) ==
    IF link.url \in {NoneStr, Text("")} THEN FALSE
    ELSE IF link.title \in {NoneStr, Text("")} THEN TRUE
    ELSE link.title = link.url

(* tasks.needs_title_refresh *)
needs_title_refresh(link) ==
    LET title == _normalize_value(link.title)
        url   == _normalize_value(link.url)
    IN  IF url = Text("") THEN FALSE
        ELSE IF title = Text("") THEN TRUE
        ELSE title = url

----------------------------------------------------------------------------
(* Ingestion entry points.  Each of them runs to its commit in one step. *)

Resp(op, req, code, id, title, url) ==
    [op |-> op, req |-> req, code |-> code, id |-> id, title |-> title, url |-> url]

NoResp == Resp("none", NoneStr, "", 0, NoneStr, NoneStr)

(* routers/api.py api_create_link *)
ApiCreate(u, title, image_url, tgs, collection, net) ==
    LET url      == HttpUrlStr(u)
        existing == get_link_by_url(links, url)
        payload  == Payload(u, title, image_url, tgs, collection)
        link     == create_link(payload, net, FALSE, now)
        id       == Len(links) + 1
    IN  IF existing # 0
        THEN /\ resp' = Resp("api_create", u, "409", existing,
                             links[existing].title, links[existing].url)
             /\ log' = <<>>
             /\ UNCHANGED <<refresher, requests, poller, auditor, notes, links, submitted, tags, collections, refreshq, now, ticks>>
        ELSE IF FetchErrorEscapes(CreateNet(payload, net, FALSE))
        THEN /\ resp' = Resp("api_create", u, "500", 0, NoneStr, NoneStr)
             /\ log' = <<Event(0, url, "create_failed",
                               CreateNet(payload, net, FALSE), {})>>
             /\ UNCHANGED <<refresher, requests, poller, auditor, notes, links, submitted, tags, collections, refreshq, now, ticks>>
        ELSE /\ Len(links) < MaxLinks
             /\ links' = Append(links, link)
             /\ submitted' = Append(submitted, u)
             /\ collections' = get_or_create_collection(collections, collection)
             /\ tags' = get_or_create_tags(tags, tgs)
             /\ refreshq' = IF needs_title_refresh(link) THEN refreshq \cup {id}
                            ELSE refreshq
             /\ resp' = Resp("api_create", u, "201", id, link.title, link.url)
             /\ log' = <<Event(id, link.url, "create",
                               CreateNet(payload, net, FALSE), CreateWrote)>>
             /\ UNCHANGED <<refresher, requests, poller, auditor, notes, now, ticks>>

(* The hosts telegram_poller.fetch_url_metadata refuses to fetch. *)
BlockedHost(host) ==
    host \in {"localhost", "127.0.0.1", "0.0.0.0", "::1",
              "10.0.0.5", "192.168.1.1", "172.16.0.1"}

(* telegram_poller.fetch_url_metadata: title and image of the page, both None
   when the URL is refused or the GET fails. *)
ChatNet(url, net) == IF BlockedHost(url.host) THEN NoFetch ELSE net

fetch_url_metadata(url, net) ==
    LET n == ChatNet(url, net)
    IN  IF n.kind = "http" /\ n.status < 400
        THEN [title |-> NetTitle(n), image |-> n.image]
        ELSE [title |-> NoneStr, image |-> None]

Acc(ls, subs, saved, dups, events) ==
    [links |-> ls, submitted |-> subs, saved |-> saved, dups |-> dups,
     events |-> events, failed |-> FALSE]

(* telegram_poller.process_message, the loop over valid_urls (lines 258-313) *)
RECURSIVE ChatLoop(_, _, _, _, _)
ChatLoop(acc, urls, nets, user_text, t) ==
    IF urls = <<>> THEN acc
    ELSE LET url      == Head(urls)
             existing == get_link_by_url(acc.links, url)
             metadata == fetch_url_metadata(url, Head(nets))
             title    == IF user_text # NoneStr THEN user_text ELSE metadata.title
             payload  == Payload(url, title, metadata.image, {}, None)
             link     == create_link(payload, NoFetch, TRUE, t)
             id       == Len(acc.links) + 1
         IN  IF existing # 0
             THEN ChatLoop([acc EXCEPT !.dups = @ + 1], Tail(urls), Tail(nets),
                           user_text, t)
             ELSE IF FetchErrorEscapes(CreateNet(payload, NoFetch, TRUE))
             THEN [acc EXCEPT !.failed = TRUE]
             ELSE ChatLoop(
                    Acc(Append(acc.links, link), Append(acc.submitted, url),
                        acc.saved + 1, acc.dups,
                        acc.events \o
                          <<Event(0, url, "chat_fetch", ChatNet(url, Head(nets)), {}),
                            Event(id, link.url, "create",
                                  CreateNet(payload, NoFetch, TRUE), CreateWrote)>>),
                    Tail(urls), Tail(nets), user_text, t)

(* telegram_poller.process_message for a text that holds at least one URL;
   text is what the message holds besides its URLs. *)
ChatMessage(urls, nets, text) ==
    LET user_text == IF Len(urls) = 1 THEN text ELSE NoneStr
        out       == ChatLoop(Acc(links, submitted, 0, 0, <<>>), urls, nets,
                              user_text, now)
        code      == IF out.saved = 0 THEN "duplicates"
                     ELSE IF out.dups = 0 THEN "saved" ELSE "mixed"
    IN  /\ \A i \in DOMAIN urls : ValidHttpUrl(urls[i])
        /\ Len(out.links) <= MaxLinks
        /\ IF out.failed                      \* lines 371-376: rollback
           THEN /\ resp' = Resp("chat", NoneStr, "error", 0, NoneStr, NoneStr)
                /\ UNCHANGED <<links, submitted>>
           ELSE /\ resp' = Resp("chat", NoneStr, code, out.saved, NoneStr, NoneStr)
                /\ links' = out.links
                /\ submitted' = out.submitted
        /\ log' = out.events
        /\ UNCHANGED <<refresher, requests, auditor, notes, tags, collections, refreshq, now, ticks>>

(* A chat message: the text around its URL-looking substrings, those substrings
   in order, and len(text). *)
Message(body, urls, length) == [body |-> body, urls |-> urls, length |-> length]

(* extract_urls: the pattern matches http(s)://, then a host that holds a dot
   with one to six alphanumerics after it. *)
extract_urls(msg) ==
    SelectSeq(msg.urls, LAMBDA u : /\ u.scheme \in {"http", "https"}
                                   /\ u.host \notin {"", "localhost"})

(* len(url) of the URL strings of the model *)
UrlLen(url) == IF url.path = "/long" THEN MaxUrlLen + 1 ELSE 30

(* process_message, lines 226-242: scheme, netloc and length of a candidate *)
ChatValid(url) ==
    /\ ValidHttpUrl(url)
    /\ url.host # ""
    /\ UrlLen(url) <= MaxUrlLen

(* A sanitizer that stores the text as it came. *)
Sanitize_verbatim(body) == body

(* re.sub(r'[\x00-\x1f\x7f-\x9f]', '', text).strip() *)
Sanitize(body) ==
    CASE body = "think<07>ing" -> "thinking"
      [] body = "  padded  "   -> "padded"
      [] OTHER                 -> body

(* schemas.NoteCreate as process_message builds it, and the row create_note
   makes of it. *)
NoteCreate(title, content) == [title |-> title, content |-> content]

(* process_message, lines 187-217: no URL in the text *)
ChatNote(msg) ==
    /\ Len(notes) < MaxNotes
    /\ notes' = Append(notes, NoteCreate("FromTelegram",
                                         [text |-> Sanitize(msg.body), urls |-> msg.urls]))
    /\ resp' = Resp("chat", NoneStr, "note_saved", Len(notes) + 1, NoneStr, NoneStr)
    /\ log' = <<>>
    /\ UNCHANGED <<refresher, requests, auditor, links, submitted, tags, collections, refreshq, now, ticks>>

(* process_message answers and stores nothing *)
ChatReply(code) ==
    /\ resp' = Resp("chat", NoneStr, code, 0, NoneStr, NoneStr)
    /\ log' = <<>>
    /\ UNCHANGED <<refresher, requests, auditor, notes, links, submitted, tags, collections, refreshq, now, ticks>>

(* telegram_poller.process_message; net is what every page of the message
   answers when it is fetched. *)
process_message(msg, net) ==
    LET urls       == extract_urls(msg)
        valid_urls == SelectSeq(urls, ChatValid)
        user_text  == IF Sanitize(msg.body) = "" THEN NoneStr
                      ELSE Text(Sanitize(msg.body))
    IN  IF msg.length > MaxTextLen THEN ChatReply("too_long")
        ELSE IF msg.body = "/start" THEN ChatReply("welcome")
        ELSE IF urls = <<>> THEN ChatNote(msg)
        ELSE IF Len(urls) > MaxUrlsPerMessage THEN ChatReply("too_many")
        ELSE IF valid_urls = <<>> THEN ChatReply("no_valid_urls")
        ELSE ChatMessage(valid_urls, [i \in DOMAIN valid_urls |-> net], user_text)

(* An update as getUpdates returns it.  Kind "message" holds a message with
   its chat, kind "no_chat" a message with a text and no chat, on which
   process_message raises KeyError at message["chat"], kind "other" holds no
   message and its message field is not read. *)
Update(update_id, kind, message) ==
    [update_id |-> update_id, kind |-> kind, message |-> message]

(* The poller and the server it polls.  last_update_id is the global of the
   module, updates the rest of the list the for loop walks, offset the offset of
   the last request; sent are the updates the server ever made, in the order of
   their ids, pending those it has not been told to forget; done are the ids
   whose processing returned, failed the id whose processing raised last. *)
Poller(last_update_id, pc, updates, offset, answered, sent, pending, done, failed) ==
    [last_update_id |-> last_update_id, pc |-> pc, updates |-> updates,
     offset |-> offset, answered |-> answered, sent |-> sent,
     pending |-> pending, done |-> done, failed |-> failed]

Polling == Poller(0, "poll", <<>>, NoneInt, FALSE, <<>>, <<>>, {}, 0)

(* A request that asks again for the update of the cursor. *)
Offset_same(last_update_id) ==
    IF last_update_id # 0 THEN last_update_id ELSE NoneInt

(* poll_telegram, line 391: last_update_id + 1 if last_update_id else None *)
Offset(last_update_id) ==
    IF last_update_id # 0 THEN last_update_id + 1 ELSE NoneInt

(* What the server answers to getUpdates: the updates it has not been told to
   forget, in the order of their ids; an offset makes it forget the updates
   below it. *)
TelegramAnswer(pending, offset) ==
    IF offset = NoneInt THEN pending
    ELSE SelectSeq(pending, LAMBDA u : u.update_id >= offset)

(* Somebody writes to the bot: the server makes an update with the next id. *)
Send(kind, message) ==
    /\ Len(poller.sent) < MaxUpdates
    /\ LET u == Update(Len(poller.sent) + 1, kind, message)
       IN  poller' = [poller EXCEPT !.sent = Append(@, u), !.pending = Append(@, u)]
    /\ UNCHANGED <<refresher, requests, auditor, notes, links, submitted, tags, collections, refreshq, now, ticks, resp, log>>

(* poll_telegram, line 391 and get_updates: the request with the offset of the
   cursor; any failure of the request gives the empty list. *)
GetUpdates(ok) ==
    /\ poller.pc = "poll"
    /\ LET offset == Offset(poller.last_update_id)
           result == TelegramAnswer(poller.pending, offset)
       IN  poller' = IF ok
                     THEN [poller EXCEPT !.pc = "loop", !.updates = result,
                                         !.offset = offset, !.answered = TRUE,
                                         !.pending = result]
                     ELSE [poller EXCEPT !.pc = "loop", !.updates = <<>>,
                                         !.offset = offset, !.answered = FALSE]
    /\ UNCHANGED <<refresher, requests, auditor, notes, links, submitted, tags, collections, refreshq, now, ticks, resp, log>>

(* poll_telegram: the for loop has walked the list, while True asks again. *)
LoopEnd ==
    /\ poller.pc = "loop"
    /\ poller.updates = <<>>
    /\ poller' = [poller EXCEPT !.pc = "poll"]
    /\ UNCHANGED <<refresher, requests, auditor, notes, links, submitted, tags, collections, refreshq, now, ticks, resp, log>>

(* poll_telegram, lines 393-403: one turn of the for loop.  The message, if
   any, is processed, then the cursor moves to the id of the update; when
   process_message raises, the except of the loop (lines 405-407) drops the
   rest of the list and the loop asks again after its sleep. *)
ProcessUpdate(net) ==
    /\ poller.pc = "loop"
    /\ poller.updates # <<>>
    /\ LET update    == Head(poller.updates)
           update_id == update.update_id
           advanced  == [poller EXCEPT
                           !.last_update_id = IF update_id > @ THEN update_id ELSE @,
                           !.updates = Tail(@)]
       IN  CASE update.kind = "other" ->
                  /\ poller' = advanced
                  /\ UNCHANGED <<notes, links, submitted, resp, log>>
                  /\ UNCHANGED <<refresher, requests, auditor, tags, collections, refreshq, now, ticks>>
             [] update.kind = "no_chat" ->
                  /\ poller' = [poller EXCEPT !.pc = "poll", !.updates = <<>>,
                                              !.failed = update_id]
                  /\ resp' = Resp("poll", NoneStr, "KeyError", update_id, NoneStr, NoneStr)
                  /\ log' = <<>>
                  /\ UNCHANGED <<notes, links, submitted>>
                  /\ UNCHANGED <<refresher, requests, auditor, tags, collections, refreshq, now, ticks>>
             [] OTHER ->
                  /\ process_message(update.message, net)
                  /\ poller' = [advanced EXCEPT !.done = @ \cup {update_id}]

(* routers/api.py extract_domain_name: the tag a bulk import gives a link. *)
extract_domain_name(url) == "example"

(* routers/web.py bulk_import_links, the loop over the lines (lines 334-378) *)
RECURSIVE BulkLoop(_, _, _, _)
BulkLoop(acc, urls, nets, t) ==
    IF urls = <<>> THEN acc
    ELSE LET url      == Head(urls)
             existing == get_link_by_url(acc.links, url)
             payload  == Payload(url, url, None, {extract_domain_name(url)}, None)
             link     == create_link(payload, Head(nets), FALSE, t)
             id       == Len(acc.links) + 1
         IN  IF existing # 0
             THEN BulkLoop([acc EXCEPT !.dups = @ + 1], Tail(urls), Tail(nets), t)
             ELSE IF FetchErrorEscapes(CreateNet(payload, Head(nets), FALSE))
             THEN BulkLoop(acc, Tail(urls), Tail(nets), t)   \* lines 376-378
             ELSE BulkLoop(
                    Acc(Append(acc.links, link), Append(acc.submitted, url),
                        acc.saved + 1, acc.dups,
                        Append(acc.events,
                               Event(id, link.url, "create",
                                     CreateNet(payload, Head(nets), FALSE),
                                     CreateWrote))),
                    Tail(urls), Tail(nets), t)

(* routers/web.py bulk_import_links *)
BulkImport(urls, nets) ==
    LET out == BulkLoop(Acc(links, submitted, 0, 0, <<>>), urls, nets, now)
    IN  /\ \A i \in DOMAIN urls : ValidHttpUrl(urls[i])
        /\ Len(out.links) <= MaxLinks
        /\ links' = out.links
        /\ submitted' = out.submitted
        /\ tags' = IF out.saved > 0
                   THEN get_or_create_tags(tags, {extract_domain_name(urls[1])})
                   ELSE tags
        /\ resp' = Resp("bulk_import", NoneStr,
                        IF out.saved > 0 THEN "success" ELSE "error",
                        out.saved, NoneStr, NoneStr)
        /\ log' = out.events
        /\ UNCHANGED <<refresher, requests, poller, auditor, notes, collections, refreshq, now, ticks>>

(* routers/web.py bulk_import_csv, the loop over the rows (lines 442-479):
   no duplicate check; the handler runs on the event loop. *)
RECURSIVE CsvLoop(_, _, _)
CsvLoop(acc, urls, t) ==
    IF urls = <<>> THEN acc
    ELSE LET url     == Head(urls)
             payload == Payload(url, url, None, {extract_domain_name(url)}, None)
             link    == create_link(payload, NoFetch, TRUE, t)
             id      == Len(acc.links) + 1
         IN  IF FetchErrorEscapes(CreateNet(payload, NoFetch, TRUE))
             THEN CsvLoop(acc, Tail(urls), t)                \* lines 477-479
             ELSE CsvLoop(
               Acc(Append(acc.links, link), Append(acc.submitted, url),
                   acc.saved + 1, acc.dups,
                   Append(acc.events,
                          Event(id, link.url, "create",
                                CreateNet(payload, NoFetch, TRUE), CreateWrote))),
               Tail(urls), t)

(* routers/web.py bulk_import_csv *)
CsvImport(urls) ==
    LET out == CsvLoop(Acc(links, submitted, 0, 0, <<>>), urls, now)
    IN  /\ \A i \in DOMAIN urls : ValidHttpUrl(urls[i])
        /\ Len(out.links) <= MaxLinks
        /\ links' = out.links
        /\ submitted' = out.submitted
        /\ tags' = IF out.saved > 0
                   THEN get_or_create_tags(tags, {extract_domain_name(urls[1])})
                   ELSE tags
        /\ resp' = Resp("bulk_import_csv", NoneStr,
                        IF out.saved > 0 THEN "success" ELSE "error",
                        out.saved, NoneStr, NoneStr)
        /\ log' = out.events
        /\ UNCHANGED <<refresher, requests, poller, auditor, notes, collections, refreshq, now, ticks>>

----------------------------------------------------------------------------
(* POST /api/links step by step, so that requests overlap: the duplicate check,
   the SELECT of get_or_create_collection, its INSERT, and the commit. *)

Request(pc, url, name, coll, own, res) ==
    [pc |-> pc, url |-> url, name |-> name, coll |-> coll, own |-> own, res |-> res]

NoRequest == Request("idle", NoneStr, None, None, None, "")

(* select(Collection).where(func.lower(Collection.name) == func.lower(name)):
   the committed row with that name, None when there is none *)
SelectCollection(colls, name) ==
    IF \E c \in colls : Lower(c) = Lower(name)
    THEN CHOOSE c \in colls : Lower(c) = Lower(name)
    ELSE None

(* slugify(name) of the before_insert listener: the unique key of the row *)
Slug(name) == Lower(name)

(* A storage layer with a unique index on the normalized url: the INSERT of a
   second link is refused. *)
InsertLink_unique(ls, url) == IF get_link_by_url(ls, url) # 0 THEN "409" ELSE "201"

(* session.flush() and session.commit() of a new Link: the links table has no
   unique column besides id, the INSERT is never refused. *)
InsertLink(ls, url) == "201"

(* A get_or_create_collection that lets the IntegrityError out. *)
OnIntegrityError_raises(colls, name) == None

(* get_or_create_collection, lines 187-191: rollback, then the row is read again *)
OnIntegrityError(colls, name) == SelectCollection(colls, name)

(* api_create_link, lines 41-52: the duplicate check of a new request *)
RequestStart(r, u, name) ==
    LET existing == get_link_by_url(links, HttpUrlStr(u))
    IN  /\ requests[r].pc = "idle"
        /\ requests' = [requests EXCEPT ![r] =
                           IF existing # 0 THEN Request("done", u, name, None, None, "409")
                           ELSE Request("checked", u, name, None, None, "")]
        /\ resp' = Resp("request_start", u, IF existing # 0 THEN "409" ELSE "", r,
                        NoneStr, NoneStr)
        /\ log' = <<>>
        /\ UNCHANGED <<refresher, poller, auditor, notes, links, submitted, tags, collections, refreshq, now, ticks>>

(* get_or_create_collection, lines 173-183: no name, or the SELECT *)
RequestSelect(r) ==
    LET name     == requests[r].name
        existing == IF name = None THEN None ELSE SelectCollection(collections, name)
    IN  /\ requests[r].pc = "checked"
        /\ requests' = [requests EXCEPT ![r].pc = IF name = None \/ existing # None
                                                  THEN "created" ELSE "adding",
                                        ![r].coll = existing]
        /\ resp' = Resp("request_select", requests[r].url, "", r, NoneStr, NoneStr)
        /\ log' = <<>>
        /\ UNCHANGED <<refresher, poller, auditor, notes, links, submitted, tags, collections, refreshq, now, ticks>>

(* get_or_create_collection, lines 183-192: session.add and session.flush.  The
   INSERT waits while another transaction holds a row with the same key that it
   has not committed; it raises IntegrityError when a committed row has it. *)
RequestFlush(r) ==
    LET name  == requests[r].name
        raced == \E c \in collections : Slug(c) = Slug(name)
        again == OnIntegrityError(collections, name)
    IN  /\ requests[r].pc = "adding"
        /\ \A q \in DOMAIN requests :
              q # r /\ requests[q].own # None => Slug(requests[q].own) # Slug(name)
        /\ requests' = [requests EXCEPT ![r] =
                           IF ~raced THEN [@ EXCEPT !.pc = "created", !.coll = name, !.own = name]
                           ELSE IF again = None THEN [@ EXCEPT !.pc = "done", !.res = "500"]
                           ELSE [@ EXCEPT !.pc = "created", !.coll = again]]
        /\ resp' = Resp("request_flush", requests[r].url,
                        IF raced THEN "IntegrityError" ELSE "", r, NoneStr, NoneStr)
        /\ log' = <<>>
        /\ UNCHANGED <<refresher, poller, auditor, notes, links, submitted, tags, collections, refreshq, now, ticks>>

(* create_link, lines 236-267, and api_create_link, lines 54-60: the link is
   inserted and the transaction committed, with the collection it added. *)
RequestCommit(r, net) ==
    LET req     == requests[r]
        payload == Payload(req.url, NoneStr, None, {}, req.name)
        link    == create_link(payload, net, FALSE, now)
        id      == Len(links) + 1
        res     == InsertLink(links, link.url)
    IN  /\ req.pc = "created"
        /\ Len(links) < MaxLinks
        /\ requests' = [requests EXCEPT ![r].pc = "done", ![r].res = res, ![r].own = None]
        /\ IF res = "201"
           THEN /\ links' = Append(links, link)
                /\ submitted' = Append(submitted, req.url)
                /\ collections' = IF req.own # None THEN collections \cup {req.own}
                                   ELSE collections
                /\ refreshq' = IF needs_title_refresh(link) THEN refreshq \cup {id}
                               ELSE refreshq
                /\ log' = <<Event(id, link.url, "create",
                                  CreateNet(payload, net, FALSE), CreateWrote)>>
           ELSE /\ log' = <<>>
                /\ UNCHANGED <<links, submitted, collections, refreshq>>
        /\ resp' = Resp("request_commit", req.url, res, IF res = "201" THEN id ELSE 0,
                        NoneStr, NoneStr)
        /\ UNCHANGED <<refresher, poller, auditor, notes, tags, now, ticks>>

(* The response is sent and the session closed. *)
RequestEnd(r) ==
    /\ requests[r].pc = "done"
    /\ requests' = [requests EXCEPT ![r] = NoRequest]
    /\ resp' = Resp("request_end", NoneStr, "", r, NoneStr, NoneStr)
    /\ log' = <<>>
    /\ UNCHANGED <<refresher, poller, auditor, notes, links, submitted, tags, collections, refreshq, now, ticks>>

----------------------------------------------------------------------------
(* Edits *)

(* crud.update_link, as the API's PATCH runs it; None leaves a column alone. *)
update_link(link, title, image_url) ==
    [link EXCEPT !.title = IF title # NoneStr THEN title ELSE @,
                 !.image_url = IF image_url # None THEN image_url ELSE @]

(* routers/api.py api_update_link *)
ApiUpdate(id, title, image_url) ==
    LET updated == update_link(links[id], title, image_url)
    IN  /\ id \in DOMAIN links
        /\ links' = [links EXCEPT ![id] = updated]
        /\ refreshq' = IF needs_title_refresh(updated) THEN refreshq \cup {id}
                       ELSE refreshq
        /\ resp' = Resp("api_update", NoneStr, "200", id, updated.title, updated.url)
        /\ log' = <<Event(id, updated.url, "update", NoFetch,
                          (IF title # NoneStr THEN {"title"} ELSE {})
                          \cup (IF image_url # None THEN {"image_url"} ELSE {}))>>
        /\ UNCHANGED <<refresher, requests, poller, auditor, notes, submitted, tags, collections, now, ticks>>

(* routers/web.py update_link_view: the form's title, stripped, or the stored
   one when the form has none; no refresh is scheduled. *)
WebUpdate(id, title) ==
    LET updated == update_link(links[id],
                               IF title # NoneStr THEN Strip(title) ELSE links[id].title,
                               None)
    IN  /\ id \in DOMAIN links
        /\ links' = [links EXCEPT ![id] = updated]
        /\ resp' = Resp("web_update", NoneStr, "303", id, updated.title, updated.url)
        /\ log' = <<Event(id, updated.url, "update", NoFetch, {"title"})>>
        /\ UNCHANGED <<refresher, requests, poller, auditor, notes, submitted, tags, collections, refreshq, now, ticks>>

(* tasks._fetch_title_sync *)
_fetch_title_sync(net) == _normalize_value(fetch_link_metadata(net).title)

(* tasks.refresh_link_title_if_placeholder, run as a background task *)
RefreshTitle(id, net) ==
    LET link      == links[id]
        new_title == _fetch_title_sync(net)
    IN  /\ id \in refreshq
        /\ refreshq' = refreshq \ {id}
        /\ resp' = Resp("refresh", NoneStr, "", id, NoneStr, NoneStr)
        /\ IF ~needs_title_refresh(link)
           THEN /\ log' = <<>>
                /\ UNCHANGED links
           ELSE IF new_title = Text("") \/ new_title = link.title
           THEN /\ log' = <<Event(id, link.url, "refresh", net, {})>>
                /\ UNCHANGED links
           ELSE /\ log' = <<Event(id, link.url, "refresh", net, {"title"})>>
                /\ links' = [links EXCEPT ![id].title = new_title]
        /\ UNCHANGED <<refresher, requests, poller, auditor, notes, submitted, tags, collections, now, ticks>>

(* The refresh task's session: where the task is, the link it was scheduled for
   and the row as get_link loaded it. *)
Task(pc, id, obj) == [pc |-> pc, id |-> id, obj |-> obj]

NoLink == Link(NoneStr, NoneStr, None, "", NoneInt, "", NoneInt, NoneInt)

NoTask == Task("idle", 0, NoLink)

(* crud.get_link: the row, NoLink for None *)
get_link(ls, id) == IF id \in DOMAIN ls THEN ls[id] ELSE NoLink

(* _fetch_title_sync(link.url): the stripped title of the page, "" when the
   fetch failed or the page has none. *)
FetchTitle(url, net) ==
    IF fetch_link_metadata(net).title = Text("<url>") THEN _normalize_value(url)
    ELSE _fetch_title_sync(net)

(* A refresh task that fetches whatever the title of the link is. *)
RefreshRead_always_fetches(id) ==
    /\ id \in refreshq
    /\ refresher.pc = "idle"
    /\ refreshq' = refreshq \ {id}
    /\ refresher' = IF id \in DOMAIN links THEN Task("fetching", id, links[id]) ELSE NoTask
    /\ resp' = Resp("refresh_read", NoneStr,
                    IF id \in DOMAIN links THEN "fetching" ELSE "return", id, NoneStr, NoneStr)
    /\ log' = <<>>
    /\ UNCHANGED <<requests, poller, auditor, notes, links, submitted, tags, collections, now, ticks>>

(* refresh_link_title_if_placeholder, lines 56-60: the task starts, reads the
   link and returns unless the title is a placeholder. *)
RefreshRead(id) ==
    LET link  == get_link(links, id)
        fetch == link # NoLink /\ needs_title_refresh(link)
    IN  /\ id \in refreshq
        /\ refresher.pc = "idle"
        /\ refreshq' = refreshq \ {id}
        /\ refresher' = IF fetch THEN Task("fetching", id, link) ELSE NoTask
        /\ resp' = Resp("refresh_read", NoneStr, IF fetch THEN "fetching" ELSE "return",
                        id, NoneStr, NoneStr)
        /\ log' = <<>>
        /\ UNCHANGED <<requests, poller, auditor, notes, links, submitted, tags, collections, now, ticks>>

(* refresh_link_title_if_placeholder, lines 66-68: link.title = new_title on
   the loaded object, then the commit, which updates the title of the row. *)
RefreshStore(row, loaded, new_title) ==
    LET obj == [loaded EXCEPT !.title = new_title]
    IN  [c \in DOMAIN row |-> IF obj[c] # loaded[c] THEN obj[c] ELSE row[c]]

(* refresh_link_title_if_placeholder, lines 62-70: the fetch returns; the title
   is written when one was found that differs from the loaded one. *)
RefreshWrite(net) ==
    LET id        == refresher.id
        link      == refresher.obj
        new_title == FetchTitle(link.url, net)
        write     == new_title # Text("") /\ new_title # link.title
    IN  /\ refresher.pc = "fetching"
        /\ refresher' = NoTask
        /\ links' = IF write /\ id \in DOMAIN links
                     THEN [links EXCEPT ![id] = RefreshStore(links[id], link, new_title)]
                     ELSE links
        /\ resp' = Resp("refresh_write", NoneStr, IF write THEN "written" ELSE "return",
                        id, new_title, link.url)
        /\ log' = <<Event(id, link.url, "refresh", net, IF write THEN {"title"} ELSE {})>>
        /\ UNCHANGED <<requests, poller, auditor, notes, submitted, tags, collections, refreshq, now, ticks>>

(* routers/api.py api_delete_link, for the link created last *)
DeleteLast ==
    /\ links # <<>>
    /\ links' = SubSeq(links, 1, Len(links) - 1)
    /\ submitted' = SubSeq(submitted, 1, Len(submitted) - 1)
    /\ resp' = Resp("api_delete", NoneStr, "204", Len(links), NoneStr, NoneStr)
    /\ log' = <<>>
    /\ UNCHANGED <<refresher, requests, poller, auditor, notes, tags, collections, refreshq, now, ticks>>

----------------------------------------------------------------------------
(* The link health and image auditor (check_link_images.py) *)

Checked(link, updated, event) == [link |-> link, updated |-> updated, event |-> event]

(* A skip test that uses the re-check cutoff as its window. *)
SkipCheck_cutoff_window(link, t) ==
    /\ link.image_check_status = "not_found"
    /\ link.image_checked_at # NoneInt
    /\ t - link.image_checked_at < DefaultMaxAge

(* check_link_image, lines 31-36: not_found and checked recently *)
SkipCheck(link, t) ==
    /\ link.image_check_status = "not_found"
    /\ link.image_checked_at # NoneInt
    /\ t - link.image_checked_at < CoolDownDays

(* A classification that knows 404 only as a broken link. *)
LinkStatus_404_only(metadata) ==
    IF metadata.is_accessible THEN "active"
    ELSE IF metadata.status_code = 404 THEN "broken"
    ELSE IF metadata.status_code # NoneInt THEN "error"
    ELSE "unreachable"

(* check_link_image, lines 47-59 *)
LinkStatus(metadata) ==
    IF metadata.is_accessible THEN "active"
    ELSE IF metadata.status_code \in {404, 410} THEN "broken"
    ELSE IF metadata.status_code # NoneInt THEN "error"
    ELSE "unreachable"

(* A check that records success whenever the page could be fetched. *)
ImageCheckStatus_fetched(metadata) == IF metadata.is_accessible THEN "success" ELSE "not_found"

(* check_link_image, line 71 *)
ImageCheckStatus(metadata) == IF metadata.image # None THEN "success" ELSE "not_found"

(* An except branch that forgets to stamp last_checked_at. *)
CheckFailed_no_stamp(id, link, net, t) ==
    Checked([link EXCEPT !.image_checked_at = t, !.image_check_status = "failed",
                         !.link_status = "error"],
            FALSE,
            Event(id, link.url, "exception", net,
                  {"image_checked_at", "image_check_status", "link_status"}))

(* check_link_image, lines 76-83: the except branch *)
CheckFailed(id, link, net, t) ==
    Checked([link EXCEPT !.image_checked_at = t, !.image_check_status = "failed",
                         !.link_status = "error", !.last_checked_at = t],
            FALSE,
            Event(id, link.url, "exception", net,
                  {"image_checked_at", "image_check_status", "link_status",
                   "last_checked_at"}))

(* check_link_image, lines 38-74: the fetch and the update it commits *)
CheckDone(id, link, net, t) ==
    LET metadata == fetch_link_metadata(net)
        has_code == metadata.status_code # NoneInt
        updated  == metadata.image # None /\ link.image_url = None
    IN  Checked([link EXCEPT
                   !.last_checked_at = t,
                   !.http_status_code = IF has_code THEN metadata.status_code ELSE @,
                   !.link_status = LinkStatus(metadata),
                   !.image_url = IF updated THEN metadata.image ELSE @,
                   !.image_checked_at = t,
                   !.image_check_status = ImageCheckStatus(metadata)],
                updated,
                Event(id, link.url, "check", net,
                      {"last_checked_at", "link_status", "image_checked_at",
                       "image_check_status"}
                      \cup (IF has_code THEN {"http_status_code"} ELSE {})
                      \cup (IF updated THEN {"image_url"} ELSE {})))

(* check_link_image: net is what the fetch of the link's page meets. *)
check_link_image(id, link, net, t) ==
    IF SkipCheck(link, t)
    THEN Checked(link, FALSE, Event(id, link.url, "skip", NoFetch, {}))
    ELSE IF net.kind = "raise" THEN CheckFailed(id, link, net, t)
    ELSE CheckDone(id, link, net, t)

(* check_missing_images, lines 99-110: the three clauses of the filter *)
MissingCandidate(link, cutoff_date) ==
    \/ link.image_url = None /\ link.image_checked_at = NoneInt
    \/ /\ link.image_url = None
       /\ link.image_check_status = "failed"
       /\ link.image_checked_at # NoneInt
       /\ link.image_checked_at < cutoff_date
    \/ /\ link.image_url # None
       /\ (link.image_checked_at = NoneInt \/ link.image_checked_at < cutoff_date)

(* .limit(batch_size).all(): the first batch_size matching rows, in id order *)
Limit(ids, batch_size) ==
    {i \in ids : Cardinality({j \in ids : j < i}) < batch_size}

MissingBatch(ls, batch_size, max_age_days, t) ==
    Limit({i \in DOMAIN ls : MissingCandidate(ls[i], t - max_age_days)}, batch_size)

RECURSIVE SeqOfSet(_)
SeqOfSet(S) == IF S = {} THEN <<>>
               ELSE <<SetMin(S)>> \o SeqOfSet(S \ {SetMin(S)})

(* check_missing_images: one run of the batch job *)
CheckMissingImages(batch_size, max_age_days, nets) ==
    LET batch == MissingBatch(links, batch_size, max_age_days, now)
        order == SeqOfSet(batch)
        out   == [i \in batch |-> check_link_image(i, links[i], nets[i], now)]
    IN  /\ DOMAIN nets = batch
        /\ links' = [i \in DOMAIN links |->
                       IF i \in batch THEN out[i].link ELSE links[i]]
        /\ resp' = Resp("check_missing", NoneStr, "", Cardinality(batch), NoneStr, NoneStr)
        /\ log' = [k \in DOMAIN order |-> out[order[k]].event]
        /\ UNCHANGED <<refresher, requests, poller, auditor, notes, submitted, tags, collections, refreshq, now, ticks>>

(* A retry that leaves the image cleared when it found no other. *)
RetryFailed_no_restore(id, link, net, t) ==
    check_link_image(id, [link EXCEPT !.image_url = None], net, t)

(* check_broken_images, lines 154-165: clear the image, check, restore *)
RetryFailed(id, link, net, t) ==
    LET old_image == link.image_url
        r         == check_link_image(id, [link EXCEPT !.image_url = None], net, t)
    IN  IF r.updated THEN r
        ELSE [r EXCEPT !.link.image_url = old_image]

BrokenBatch(ls, batch_size) ==
    Limit({i \in DOMAIN ls : ls[i].image_check_status = "failed"}, batch_size)

(* check_broken_images: one run of the retry mode *)
CheckBrokenImages(batch_size, nets) ==
    LET batch == BrokenBatch(links, batch_size)
        order == SeqOfSet(batch)
        out   == [i \in batch |-> RetryFailed(i, links[i], nets[i], now)]
    IN  /\ batch # {}
        /\ DOMAIN nets = batch
        /\ links' = [i \in DOMAIN links |->
                       IF i \in batch THEN out[i].link ELSE links[i]]
        /\ resp' = Resp("check_broken", NoneStr, "", Cardinality(batch), NoneStr, NoneStr)
        /\ log' = [k \in DOMAIN order |-> out[order[k]].event]
        /\ UNCHANGED <<refresher, requests, poller, auditor, notes, submitted, tags, collections, refreshq, now, ticks>>

(* The auditor's session: the rows it loaded, as it holds them, the ids still to
   check, and the outcomes of the checks of this run so far. *)
Session(pc, queue, objs, done) == [pc |-> pc, queue |-> queue, objs |-> objs, done |-> done]

Idle == Session("idle", <<>>, <<>>, <<>>)

(* check_missing_images, lines 97-116: the query loads the batch into the session *)
LoadBatch(batch_size, max_age_days) ==
    LET batch == MissingBatch(links, batch_size, max_age_days, now)
    IN  /\ auditor.pc = "idle"
        /\ batch # {}
        /\ auditor' = Session("checking", SeqOfSet(batch), [i \in batch |-> links[i]], <<>>)
        /\ resp' = Resp("load_batch", NoneStr, "", Cardinality(batch), NoneStr, NoneStr)
        /\ log' = <<>>
        /\ UNCHANGED <<refresher, requests, poller, notes, links, submitted, tags, collections, refreshq, now, ticks>>

(* A commit that writes the whole object over the stored row. *)
Commit_whole_row(row, loaded, obj) == obj

(* session.commit(): the UPDATE sets the columns whose value the session
   changed and leaves the others of the stored row as they are. *)
Commit(row, loaded, obj) ==
    [c \in DOMAIN row |-> IF obj[c] # loaded[c] THEN obj[c] ELSE row[c]]

(* A loop that gives the batch up when a check raised. *)
AfterCheck_abort(queue, kind) == IF kind = "exception" THEN <<>> ELSE Tail(queue)

(* check_missing_images, lines 118-123: the loop goes on to the next link
   whatever check_link_image did. *)
AfterCheck(queue, kind) == Tail(queue)

(* check_missing_images, one turn of the loop: check_link_image on the next
   object of the session, which is as old as the load. *)
CheckNext(net) ==
    LET id    == Head(auditor.queue)
        obj   == auditor.objs[id]
        r     == check_link_image(id, obj, net, now)
        queue == AfterCheck(auditor.queue, r.event.kind)
    IN  /\ auditor.pc = "checking"
        /\ auditor.queue # <<>>
        /\ links' = [links EXCEPT ![id] = Commit(links[id], obj, r.link)]
        /\ auditor' = Session(IF queue = <<>> THEN "idle" ELSE "checking", queue,
                               [auditor.objs EXCEPT ![id] = r.link],
                               Append(auditor.done, r.event.kind))
        /\ resp' = Resp("check_next", NoneStr, "", id, NoneStr, NoneStr)
        /\ log' = <<r.event>>
        /\ UNCHANGED <<refresher, requests, poller, notes, submitted, tags, collections, refreshq, now, ticks>>

(* check_broken_images for a batch of one, lines 143-159: the first link marked
   failed is loaded, its image cleared and check_link_image run, which commits. *)
RetryCheck(net) ==
    LET batch  == BrokenBatch(links, 1)
        id     == SetMin(batch)
        loaded == links[id]
        r      == check_link_image(id, [loaded EXCEPT !.image_url = None], net, now)
    IN  /\ auditor.pc = "idle"
        /\ batch # {}
        /\ links' = [links EXCEPT ![id] = Commit(links[id], loaded, r.link)]
        /\ auditor' = Session(IF r.updated THEN "idle" ELSE "restoring", <<>>,
                               [i \in {id} |-> loaded], <<r.event.kind>>)
        /\ resp' = Resp("retry_check", NoneStr, "", id, NoneStr, NoneStr)
        /\ log' = <<r.event>>
        /\ UNCHANGED <<refresher, requests, poller, notes, submitted, tags, collections, refreshq, now, ticks>>

(* check_broken_images, lines 162-165: link.image_url = old_image and the commit *)
RetryRestore ==
    LET id        == CHOOSE i \in DOMAIN auditor.objs : TRUE
        old_image == auditor.objs[id].image_url
    IN  /\ auditor.pc = "restoring"
        /\ links' = [links EXCEPT ![id].image_url = old_image]
        /\ auditor' = [auditor EXCEPT !.pc = "idle"]
        /\ resp' = Resp("retry_restore", NoneStr, "", id, NoneStr, NoneStr)
        /\ log' = <<Event(id, links[id].url, "restore", NoFetch,
                          IF old_image # None THEN {"image_url"} ELSE {})>>
        /\ UNCHANGED <<refresher, requests, poller, notes, submitted, tags, collections, refreshq, now, ticks>>

(* Time passes between operations. *)
Tick ==
    /\ ticks < MaxTicks
    /\ ticks' = ticks + 1
    /\ now' = now + TickDays
    /\ resp' = NoResp
    /\ log' = <<>>
    /\ UNCHANGED <<refresher, requests, poller, auditor, notes, links, submitted, tags, collections, refreshq>>

(* A timestamp as it reads once the origin of the clock has moved on by one
   advance; NULL stays NULL. *)
Shift(stamp) ==
    IF stamp = NoneInt THEN NoneInt
    ELSE IF stamp < TickDays THEN 0
    ELSE stamp - TickDays

(* Time passes without end.  For MaxTicks advances the clock itself moves;
   from there on its origin moves instead, so that every timestamp keeps its
   age up to MaxTicks advances, which is longer than the cool-down and the
   re-check cutoff, the two ages the auditor compares with. *)
Pass ==
    /\ IF now < MaxTicks * TickDays
       THEN /\ now' = now + TickDays
            /\ UNCHANGED links
       ELSE /\ now' = now
            /\ links' = [i \in DOMAIN links |->
                            [links[i] EXCEPT !.image_checked_at = Shift(@),
                                             !.last_checked_at = Shift(@)]]
    /\ resp' = NoResp
    /\ log' = <<>>
    /\ UNCHANGED <<refresher, requests, poller, auditor, notes, submitted, tags, collections, refreshq, ticks>>

----------------------------------------------------------------------------
(* Inputs *)

UA  == Url("/a", << <<"utm_source", "x">> >>, "")
UA2 == Url("/a", << <<"utm_source", "y">> >>, "")
UK  == Url("/a", << <<"id", "1">>, <<"utm_source", "x">> >>, "")
UR  == Url("", <<>>, "")
UP  == Url("/a", <<>>, "")

Urls == {UA, UA2, UR}

UrlLists == UNION {[1..n -> Urls] : n \in 1..MaxBatch}

(* What a create request carries besides its URL: a title, an image, tags and
   a collection, or none of them, and then what the page answers when fetched. *)
CreateInputs ==
    {<<Text("Mine"), "mine.png", {"example"}, "Reading", NoFetch>>}
    \cup {<<NoneStr, None, {}, None, net>> : net \in {OkImage, OkPlain, NetError, Raises}}

Same(urls, net) == [i \in DOMAIN urls |-> net]

Init ==
    /\ notes = <<>>
    /\ links = <<>>
    /\ submitted = <<>>
    /\ tags = {}
    /\ collections = {}
    /\ refreshq = {}
    /\ now = 0
    /\ ticks = 0
    /\ resp = NoResp
    /\ log = <<>>
    /\ auditor = Idle
    /\ refresher = NoTask
    /\ requests = [r \in 1..MaxRequests |-> NoRequest]
    /\ poller = Polling

Next ==
    \/ \E u \in Urls, in \in CreateInputs :
          ApiCreate(u, in[1], in[2], in[3], in[4], in[5])
    \/ \E urls \in UrlLists, net \in {OkImage, NetError} :
          ChatMessage(urls, Same(urls, net), NoneStr) /\ UNCHANGED poller
    \/ \E urls \in UrlLists, net \in {OkImage, Raises} :
          BulkImport(urls, Same(urls, net))
    \/ \E urls \in UrlLists : CsvImport(urls)

Spec == Init /\ [][Next]_vars

----------------------------------------------------------------------------
(* The auditor at work: links are created, edited and audited as time passes. *)

AuditNets == {OkImage, OkPlain, Http404, Http410, Http500, NetError, Raises}

AuditCreateInputs ==
    {<<NoneStr, "mine.png", {}, None, NoFetch>>, <<NoneStr, None, {}, None, OkPlain>>}

(* The URLs of the links the auditor is studied on: none a duplicate of another. *)
AuditUrl(n) == Url("/a", << <<"id", "1">> >>, IF n = 1 THEN "" ELSE "s1")

AuditCreate(in) ==
    /\ Len(links) < MaxAudit
    /\ ApiCreate(AuditUrl(Len(links) + 1), in[1], in[2], in[3], in[4], in[5])

NextAudit ==
    \/ \E in \in AuditCreateInputs : AuditCreate(in)
    \/ \E batch_size \in 1..MaxBatch :
          \E nets \in [MissingBatch(links, batch_size, DefaultMaxAge, now) -> AuditNets] :
             CheckMissingImages(batch_size, DefaultMaxAge, nets)
    \/ \E batch_size \in 1..MaxBatch :
          \E nets \in [BrokenBatch(links, batch_size) -> AuditNets] :
             CheckBrokenImages(batch_size, nets)
    \/ \E id \in DOMAIN links : ApiUpdate(id, NoneStr, "mine.png")
    \/ Tick

SpecAudit == Init /\ [][NextAudit]_vars

----------------------------------------------------------------------------
(* The chat adapter at work: every link arrives in a chat message; links are
   edited, their titles refreshed and their pages audited afterwards. *)

UPriv  == HostUrl("10.0.0.5", "/internal")
ULocal == HostUrl("localhost", "/x")
ULong  == HostUrl("example.com", "/long")

Messages ==
    {Message("check this out", <<UPriv>>, 40),
     Message("", <<UPriv>>, 25),
     Message("", <<UA>>, 36),
     Message("", <<ULocal>>, 19),
     Message("", <<ULong>>, MaxUrlLen + 1),
     Message("just thinking out loud", <<>>, 22),
     Message("think<07>ing", <<>>, 9),
     Message("  padded  ", <<>>, 10),
     Message("/start", <<>>, 6),
     Message("a very long text", <<>>, MaxTextLen + 1)}

ChatNets == {OkImage, NetError}

NextChat ==
    \/ \E msg \in Messages, net \in ChatNets :
          process_message(msg, net) /\ UNCHANGED poller
    \/ \E batch_size \in 1..MaxBatch :
          \E nets \in [MissingBatch(links, batch_size, DefaultMaxAge, now) -> {OkPlain, NetError}] :
             CheckMissingImages(batch_size, DefaultMaxAge, nets)
    \/ \E id \in DOMAIN links : ApiUpdate(id, NoneStr, "mine.png")
    \/ \E id \in refreshq, net \in {OkPlain, NetError} : RefreshTitle(id, net)

SpecChat == Init /\ [][NextChat]_vars

----------------------------------------------------------------------------
(* The missing-image job running beside the users: links are created and
   edited while a loaded batch is being checked. *)

BatchNets == {OkImage, OkPlain, NetError, Raises}

BatchCreate(in) ==
    ApiCreate(AuditUrl(Len(links) + 1), in[1], in[2], in[3], in[4], in[5])

NextBatch ==
    \/ \E in \in AuditCreateInputs : BatchCreate(in)
    \/ \E batch_size \in 1..MaxLinks : LoadBatch(batch_size, DefaultMaxAge)
    \/ \E net \in BatchNets : CheckNext(net)
    \/ \E id \in DOMAIN links : ApiUpdate(id, NoneStr, "mine.png")
    \/ Tick

SpecBatch == Init /\ [][NextBatch]_vars

----------------------------------------------------------------------------
(* The title refresher running beside the users: links are created, edited and
   deleted while a refresh task is between its read and its write. *)

RefreshCreateInputs ==
    {<<NoneStr, None, {}, None, OkPlain>>, <<Text("Mine"), None, {}, None, OkPlain>>}

UserTitles == {Text("Mine"), Text("")}

NextRefresh ==
    \/ \E in \in RefreshCreateInputs : BatchCreate(in)
    \/ \E id \in DOMAIN links, title \in UserTitles : ApiUpdate(id, title, None)
    \/ \E id \in DOMAIN links, title \in UserTitles : WebUpdate(id, title)
    \/ \E id \in refreshq : RefreshRead(id)
    \/ \E net \in {OkPlain, OkSelf, OkNoTitle, NetError} : RefreshWrite(net)
    \/ DeleteLast

SpecRefresh == Init /\ [][NextRefresh]_vars

----------------------------------------------------------------------------
(* The two background paths side by side: a loaded batch is checked while
   titles are refreshed and edited. *)

FieldNets == {OkPlain, Raises}

NextFields ==
    \/ \E in \in RefreshCreateInputs : BatchCreate(in)
    \/ \E id \in DOMAIN links : ApiUpdate(id, Text("Mine"), None)
    \/ \E id \in refreshq : RefreshRead(id)
    \/ \E net \in {OkPlain, NetError} : RefreshWrite(net)
    \/ \E batch_size \in 1..MaxLinks : LoadBatch(batch_size, DefaultMaxAge)
    \/ \E net \in FieldNets : CheckNext(net)
    \/ \E batch_size \in 1..MaxBatch :
          \E nets \in [BrokenBatch(links, batch_size) -> FieldNets] :
             CheckBrokenImages(batch_size, nets)

SpecFields == Init /\ [][NextFields]_vars

----------------------------------------------------------------------------
(* Overlapping create requests *)

RequestNames == {None, "Reading", "reading"}

NextRequests ==
    \/ \E r \in 1..MaxRequests, u \in {UA, UA2}, name \in RequestNames :
          RequestStart(r, u, name)
    \/ \E r \in 1..MaxRequests : RequestSelect(r)
    \/ \E r \in 1..MaxRequests : RequestFlush(r)
    \/ \E r \in 1..MaxRequests : RequestCommit(r, OkPlain)
    \/ \E r \in 1..MaxRequests : RequestEnd(r)

SpecRequests == Init /\ [][NextRequests]_vars

----------------------------------------------------------------------------
(* Every writer of the image-check columns: creation, the missing-image job and
   the retry mode, each run stopping at its commits, beside the users.  A run of
   the auditor starts when the one before it has ended. *)

NextImages ==
    \/ \E in \in AuditCreateInputs : BatchCreate(in)
    \/ \E batch_size \in 1..MaxLinks : LoadBatch(batch_size, DefaultMaxAge)
    \/ \E net \in BatchNets : CheckNext(net)
    \/ \E net \in BatchNets : RetryCheck(net)
    \/ RetryRestore
    \/ \E id \in DOMAIN links : ApiUpdate(id, NoneStr, "mine.png")
    \/ Tick

SpecImages == Init /\ [][NextImages]_vars

----------------------------------------------------------------------------
(* The missing-image job run again and again with one batch size while time
   passes: after some creations no link is added any more. *)

(* One run of the job with the fixed batch size *)
RunJob ==
    \E nets \in [MissingBatch(links, MaxBatch, DefaultMaxAge, now) -> {OkPlain, OkImage}] :
       CheckMissingImages(MaxBatch, DefaultMaxAge, nets)

(* A link is added; the URLs differ by their fragment, none a duplicate of
   another. *)
LiveCreate(in) ==
    LET frag == IF links = <<>> THEN "" ELSE IF Len(links) = 1 THEN "s1" ELSE "s2"
    IN  ApiCreate(Url("/a", << <<"id", "1">> >>, frag),
                  in[1], in[2], in[3], in[4], in[5])

NextLive ==
    \/ \E in \in AuditCreateInputs : LiveCreate(in)
    \/ RunJob
    \/ Pass

(* The job is run again and again, and time does not stop. *)
SpecLive == Init /\ [][NextLive]_vars /\ WF_vars(RunJob) /\ WF_vars(Pass)

----------------------------------------------------------------------------
(* The chat poller and its server *)

PollUpdates ==
    {<<"message", m>> : m \in {Message("", <<UA>>, 36), Message("/start", <<>>, 6)}}
      \cup {<<"no_chat", Message("/start", <<>>, 6)>>,
            <<"other", Message("/start", <<>>, 6)>>}

NextPoll ==
    \/ \E in \in PollUpdates : Send(in[1], in[2])
    \/ \E ok \in BOOLEAN : GetUpdates(ok)
    \/ \E net \in ChatNets : ProcessUpdate(net)
    \/ LoopEnd

SpecPoll == Init /\ [][NextPoll]_vars

----------------------------------------------------------------------------
(* The pure functions, applied to inputs of bounded size *)

MaxQuery == 3

QueryPairs ==
    {<<"utm_source", "x">>, <<"utm_id", "7">>, <<"id", "1">>, <<"id", "3">>,
     <<"q", "a%20b">>, <<"q", "%FF">>}

Queries == UNION {[1..n -> QueryPairs] : n \in 0..MaxQuery}

UrlInputs ==
    {[scheme |-> scheme, host |-> "example.com", path |-> path, q |-> q, frag |-> frag] :
        scheme \in {"https", "HTTPS"}, path \in {"/a", ""}, q \in Queries,
        frag \in {"", "s1"}}

(* Tracking parameters to append to a query: one, two, all nine. *)
TrackingInputs ==
    {<< <<"utm_source", "x">> >>,
     << <<"utm_medium", "m">>, <<"utm_campaign", "c">> >>,
     << <<"utm_source", "x">>, <<"utm_medium", "m">>, <<"utm_campaign", "c">>,
        <<"utm_term", "t">>, <<"utm_content", "n">>, <<"utm_id", "7">>,
        <<"utm_source_platform", "p">>, <<"utm_creative_format", "f">>,
        <<"utm_marketing_tactic", "k">> >>}

(* u with tracking parameters appended to its query *)
AddTracking(url, tracking) == [url EXCEPT !.q = @ \o tracking]

PaddedUrl == [UP EXCEPT !.scheme = " https"]

LinkInputs ==
    {[title |-> title, url |-> url] :
        title \in {NoneStr, Text(""), Text("   "), Text(" Custom Title "),
                   Text("Custom Title"), UP, PaddedUrl, UA},
        url \in {NoneStr, Text(""), Text("   "), UP, PaddedUrl}}

Pure(op, req, before, out) == [op |-> op, req |-> req, before |-> before, out |-> out]

(* normalize_url(u), on a fresh input *)
Normalize(u) ==
    /\ resp = NoResp
    /\ resp' = Pure("normalize_url", u, u, normalize_url(u))
    /\ UNCHANGED <<refresher, requests, poller, auditor, notes, links, submitted, tags, collections, refreshq, now, ticks, log>>

(* normalize_url applied to the result of the last normalize_url *)
NormalizeAgain ==
    /\ resp.op = "normalize_url"
    /\ resp' = Pure("normalize_url_again", resp.req, resp.out, normalize_url(resp.out))
    /\ UNCHANGED <<refresher, requests, poller, auditor, notes, links, submitted, tags, collections, refreshq, now, ticks, log>>

(* normalize_url applied to the last input with tracking parameters appended *)
NormalizeTracked(tracking) ==
    /\ resp.op = "normalize_url"
    /\ resp' = Pure("normalize_url_tracked", AddTracking(resp.req, tracking), resp.out,
                    normalize_url(AddTracking(resp.req, tracking)))
    /\ UNCHANGED <<refresher, requests, poller, auditor, notes, links, submitted, tags, collections, refreshq, now, ticks, log>>

(* needs_title_refresh(link), on a fresh input *)
NeedsRefresh(link) ==
    /\ resp = NoResp
    /\ resp' = Pure("needs_title_refresh", link, link, needs_title_refresh(link))
    /\ UNCHANGED <<refresher, requests, poller, auditor, notes, links, submitted, tags, collections, refreshq, now, ticks, log>>

NextPure ==
    \/ \E u \in UrlInputs : Normalize(u)
    \/ NormalizeAgain
    \/ \E tracking \in TrackingInputs : NormalizeTracked(tracking)
    \/ \E link \in LinkInputs : NeedsRefresh(link)

SpecPure == Init /\ [][NextPure]_vars

----------------------------------------------------------------------------
(* Properties of ingestion, checked under Spec *)

(* C1: after any sequence of ingestion operations, run one after the other
   through any entry point, no two stored links have equal normalized URLs. *)
C1_NoDuplicateNormalizedUrls ==
    \A i, j \in DOMAIN links :
       i # j => normalize_url(links[i].url) # normalize_url(links[j].url)

(* C2: an API create whose URL normalizes to the normalized URL of a stored
   link is answered 409 with that link's id, title and url, and creates no
   link, tag or collection. *)
C2_DuplicateCreateRejected ==
    [][(/\ resp'.op = "api_create"
        /\ \E i \in DOMAIN links :
              normalize_url(links[i].url) = normalize_url(resp'.req))
       => /\ resp'.code = "409"
          /\ resp'.id \in DOMAIN links
          /\ normalize_url(links[resp'.id].url) = normalize_url(resp'.req)
          /\ resp'.title = links[resp'.id].title
          /\ resp'.url = links[resp'.id].url
          /\ links' = links
          /\ tags' = tags
          /\ collections' = collections]_vars

C2_Witness ==
    /\ resp.op = "api_create"
    /\ resp.code = "409"
    /\ resp.req = UA2
    /\ resp.id \in DOMAIN links
    /\ links[resp.id].url = UA

(* Two URL strings that differ in their tracking parameters at most. *)
NonTracking(q) == SelectSeq(q, LAMBDA p : p[1] \notin UTM_PARAMS)

OnlyTrackingDiffers(a, b) ==
    /\ a.scheme = b.scheme /\ a.host = b.host /\ a.path = b.path /\ a.frag = b.frag
    /\ NonTracking(a.q) = NonTracking(b.q)

UB  == Url("/b", << <<"utm_source", "x">> >>, "")
UKP == Url("/a", << <<"id", "1">> >>, "")

Candidates == Urls \cup {UK, UKP, UP, UB}

(* C3: get_link_by_url(u) returns a stored link whose normalized URL equals
   that of u exactly when there is one, and None otherwise; a candidate that
   differs from a stored URL in tracking parameters only is found, a candidate
   with another path on the same host is never found as that link. *)
C3_DuplicateLookup ==
    \A u \in Candidates :
       LET r == get_link_by_url(links, u)
       IN  /\ r \in DOMAIN links \cup {0}
           /\ r # 0 <=> \E i \in DOMAIN links :
                           normalize_url(links[i].url) = normalize_url(u)
           /\ r # 0 => normalize_url(links[r].url) = normalize_url(u)
           /\ \A i \in DOMAIN links :
                 /\ OnlyTrackingDiffers(links[i].url, u)
                       => r # 0 /\ OnlyTrackingDiffers(links[r].url, u)
                 /\ (links[i].url.host = u.host /\ links[i].url.path # u.path)
                       => r # i

C3_Witness ==
    /\ \E i \in DOMAIN links : links[i].url = UA /\ get_link_by_url(links, UA2) = i
    /\ get_link_by_url(links, UB) = 0
    /\ get_link_by_url(links, UKP) = 0

(* C4: the url of a stored link is the string that was submitted when it was
   created, unmodified. *)
C4_UrlStoredVerbatim ==
    /\ Len(submitted) = Len(links)
    /\ \A i \in DOMAIN links : links[i].url = submitted[i]

(* C10: whatever the synchronous metadata fetch of create_link does, the link
   is persisted and returned; its image is the fetched image when one was
   found and null otherwise. *)
C10_CreateSurvivesEnrichment ==
    /\ \A k \in DOMAIN log :
          (log[k].kind \in {"create", "create_failed"} /\ log[k].net # NoFetch)
          => /\ log[k].kind = "create"
             /\ log[k].id \in DOMAIN links
             /\ links[log[k].id].image_url =
                   (IF log[k].net.kind = "http" THEN log[k].net.image ELSE None)
    /\ resp.op = "api_create" => resp.code \in {"201", "409"}
    /\ resp.op = "chat" => resp.code # "error"

C10_Witness ==
    /\ resp.op = "api_create"
    /\ resp.code = "201"
    /\ \E k \in DOMAIN log :
          /\ log[k].kind = "create"
          /\ log[k].net = Raises
          /\ links[log[k].id].image_url = None

----------------------------------------------------------------------------
(* Properties of the auditor, checked under SpecAudit *)

(* C5: after the auditor checked a link, link_status is active if the fetch was
   accessible, else broken on 404 or 410, else error on any other status code,
   else unreachable. *)
C5_StatusFromFetch ==
    \A k \in DOMAIN log :
       log[k].kind = "check"
       => links[log[k].id].link_status =
             (IF log[k].net.kind = "http" /\ log[k].net.status < 400 THEN "active"
              ELSE IF log[k].net.kind = "http" /\ log[k].net.status \in {404, 410}
              THEN "broken"
              ELSE IF log[k].net.kind = "http" THEN "error"
              ELSE "unreachable")

C5_Witness ==
    \E k \in DOMAIN log :
       /\ log[k].kind = "check"
       /\ log[k].net = Http410
       /\ links[log[k].id].link_status = "broken"

(* C6: when the missing-image job reaches a link marked not_found whose
   image_checked_at is less than 180 days old, it issues no fetch for it and
   leaves its row unchanged. *)
C6_CoolDownSkips ==
    [][resp'.op = "check_missing"
       => \A k \in DOMAIN log' :
             LET id == log'[k].id
             IN  (/\ links[id].image_check_status = "not_found"
                  /\ links[id].image_checked_at # NoneInt
                  /\ now - links[id].image_checked_at < CoolDownDays)
                 => /\ log'[k].net = NoFetch
                    /\ log'[k].wrote = {}
                    /\ links'[id] = links[id]]_vars

C6_Witness ==
    /\ resp.op = "check_missing"
    /\ \E k \in DOMAIN log :
          /\ log[k].kind = "skip"
          /\ links[log[k].id].image_check_status = "not_found"
          /\ now - links[log[k].id].image_checked_at > DefaultMaxAge

(* C7, as claimed: whatever writes link_status writes last_checked_at with it,
   and http_status_code whenever the fetch produced a status code. *)
C7_StatusStampedWithCode ==
    \A k \in DOMAIN log :
       "link_status" \in log[k].wrote
       => /\ "last_checked_at" \in log[k].wrote
          /\ links[log[k].id].last_checked_at = now
          /\ log[k].net.kind = "http"
                => /\ "http_status_code" \in log[k].wrote
                   /\ links[log[k].id].http_status_code = log[k].net.status

(* C7, amended: whatever writes link_status writes last_checked_at with it; an
   auditor check writes http_status_code whenever its fetch produced a status
   code; creation never writes http_status_code. *)
C7_StatusStamped ==
    \A k \in DOMAIN log :
       "link_status" \in log[k].wrote
       => /\ "last_checked_at" \in log[k].wrote
          /\ links[log[k].id].last_checked_at = now
          /\ (log[k].kind # "create" /\ log[k].net.kind = "http")
                => /\ "http_status_code" \in log[k].wrote
                   /\ links[log[k].id].http_status_code = log[k].net.status
          /\ log[k].kind = "create"
                => /\ "http_status_code" \notin log[k].wrote
                   /\ links[log[k].id].http_status_code = NoneInt

C7_Witness ==
    /\ \E k \in DOMAIN log :
          /\ log[k].kind = "exception"
          /\ "link_status" \in log[k].wrote
          /\ links[log[k].id].link_status = "error"
          /\ links[log[k].id].last_checked_at = now
    /\ now > 0

(* C8: a link without an image whose auditor fetch failed transiently is left
   so that, once the re-check cutoff has passed, the missing-image job selects
   it again and fetches it again. *)
C8_TransientFailureRetried ==
    \A k \in DOMAIN log :
       LET link == links[log[k].id]
       IN  (/\ resp.op = "check_missing"
            /\ log[k].kind = "check"
            /\ Transient(log[k].net)
            /\ link.image_url = None)
           => /\ MissingCandidate(link, link.image_checked_at + 1)
              /\ ~SkipCheck(link, link.image_checked_at + DefaultMaxAge + 1)

(* C9: not_found is written only for a page that was fetched and held no image
   or answered 404 or 410; a transient failure of the fetch is recorded as
   failed, with link_status error or unreachable, never as not_found. *)
C9_TransientNotRecordedAsNotFound ==
    \A k \in DOMAIN log :
       LET link == links[log[k].id]
       IN  /\ (log[k].kind = "check" /\ Transient(log[k].net))
              => /\ link.image_check_status = "failed"
                 /\ link.link_status \in {"error", "unreachable"}
           /\ ("image_check_status" \in log[k].wrote
               /\ link.image_check_status = "not_found")
              => /\ log[k].net.kind = "http"
                 /\ log[k].net.image = None
                 /\ log[k].net.status \in {200, 404, 410}

----------------------------------------------------------------------------
(* Properties of the chat adapter, checked under SpecChat *)

OnlyPrivateUrl(msg) == Len(msg.urls) = 1 /\ BlockedHost(msg.urls[1].host)

(* C11: a chat message whose only URL has a loopback, localhost or private-range
   host persists no link and is answered with the "no valid URLs" reply. *)
C11_PrivateUrlRejected ==
    [][\A msg \in Messages, net \in ChatNets :
          (OnlyPrivateUrl(msg) /\ msg.length <= MaxTextLen /\ process_message(msg, net))
          => /\ links' = links
             /\ resp'.code = "no_valid_urls"]_vars

(* C12: no request is ever issued to a loopback, localhost or private-range
   host for a URL that arrived in a chat message: not by the chat adapter, not
   by create_link, not by the title refresher, not by the auditor. *)
C12_NoRequestToPrivateHost ==
    \A k \in DOMAIN log :
       BlockedHost(log[k].url.host) => log[k].net.kind \notin {"http", "neterr"}

(* The text of a message with its control characters removed. *)
ControlStripped(body) == IF body = "think<07>ing" THEN "thinking" ELSE body

Trimmed(body) == IF body = "  padded  " THEN "padded" ELSE body

(* C13, as claimed: every chat text message in which no URL is found creates
   exactly one note titled "FromTelegram" whose content is the text with its
   control characters stripped, and no link. *)
C13_NoUrlMakesNote ==
    [][\A msg \in Messages, net \in ChatNets :
          (extract_urls(msg) = <<>> /\ process_message(msg, net))
          => /\ notes' = Append(notes,
                          [title |-> "FromTelegram",
                           content |-> [text |-> ControlStripped(msg.body),
                                        urls |-> msg.urls]])
             /\ links' = links]_vars

(* C13, amended: a chat text message of at most 4000 characters that is not a
   /start command and in which no URL is found creates exactly one note titled
   "FromTelegram" whose content is the text with its control characters
   stripped and its surrounding whitespace trimmed, and no link; a longer
   message or a /start command creates neither a note nor a link. *)
C13_ShortNoUrlMakesNote ==
    [][\A msg \in Messages, net \in ChatNets :
          (extract_urls(msg) = <<>> /\ process_message(msg, net))
          => IF msg.length <= 4000 /\ msg.body # "/start"
             THEN /\ notes' = Append(notes,
                               [title |-> "FromTelegram",
                                content |-> [text |-> Trimmed(ControlStripped(msg.body)),
                                             urls |-> msg.urls]])
                  /\ links' = links
                  /\ resp'.code = "note_saved"
             ELSE /\ notes' = notes
                  /\ links' = links]_vars

C13_Witness ==
    /\ resp.op = "chat"
    /\ resp.code = "note_saved"
    /\ notes # <<>>
    /\ notes[Len(notes)].title = "FromTelegram"
    /\ notes[Len(notes)].content.text = "thinking"
    /\ links = <<>>

----------------------------------------------------------------------------
(* Properties of the pure functions, checked under SpecPure *)

(* The value of a column with surrounding whitespace removed, "" when missing *)
TrimmedValue(value) ==
    IF value \in {NoneStr, Text(""), Text("   ")} THEN Text("")
    ELSE IF value = Text(" Custom Title ") THEN Text("Custom Title")
    ELSE IF value = PaddedUrl THEN UP
    ELSE value

(* C14, as claimed: needs_title_refresh(link) is true if and only if the
   trimmed title is empty or missing, or equals the trimmed url. *)
C14_RefreshIffPlaceholder ==
    resp.op = "needs_title_refresh"
    => (resp.out <=> (\/ TrimmedValue(resp.req.title) = Text("")
                      \/ TrimmedValue(resp.req.title) = TrimmedValue(resp.req.url)))

(* C14, amended: needs_title_refresh(link) is true if and only if the trimmed
   url is not empty and the trimmed title is empty or missing, or equals the
   trimmed url; a link without a url never needs a refresh. *)
C14_RefreshIffPlaceholderOfUrl ==
    resp.op = "needs_title_refresh"
    => (resp.out <=> (/\ TrimmedValue(resp.req.url) # Text("")
                      /\ \/ TrimmedValue(resp.req.title) = Text("")
                         \/ TrimmedValue(resp.req.title) = TrimmedValue(resp.req.url)))

C14_Witness ==
    /\ resp.op = "needs_title_refresh"
    /\ resp.req.title = PaddedUrl
    /\ resp.req.url = UP
    /\ resp.out = TRUE

(* C15: for every URL u and every non-empty set of tracking parameters appended
   to its query, normalize_url(u + tracking) = normalize_url(u). *)
C15_TrackingIgnored ==
    resp.op = "normalize_url_tracked" => resp.out = resp.before

(* C16: normalize_url(normalize_url(u)) = normalize_url(u) for every u. *)
C16_Idempotent ==
    resp.op = "normalize_url_again" => resp.out = resp.before

C16_Witness ==
    /\ resp.op = "normalize_url_again"
    /\ resp.before # resp.req
    /\ resp.before.q # <<>>
    /\ resp.out = resp.before

(* The pairs of a query, counted. *)
PairCount(q, pair) == Cardinality({i \in DOMAIN q : q[i] = pair})

(* C17: normalize_url changes nothing but the tracking keys: every non-tracking
   parameter of the input is in the output with the same key and value,
   whatever the order, and the fragment of the output is that of the input. *)
C17_OnlyTrackingChanges ==
    resp.op = "normalize_url"
    => /\ \A pair \in QueryPairs :
             pair[1] \notin UTM_PARAMS
             => PairCount(resp.out.q, pair) = PairCount(resp.req.q, pair)
       /\ \A i \in DOMAIN resp.out.q : resp.out.q[i] \in QueryPairs
       /\ resp.out.frag = resp.req.frag
       /\ resp.out.host = resp.req.host
       /\ resp.out.path = resp.req.path

----------------------------------------------------------------------------
(* Properties of creation and of the running batch job *)

(* C18: right after create_link the new link has image_check_status success if
   an image was supplied or fetched and pending otherwise, image_checked_at set
   exactly when an image was obtained, link_status active, last_checked_at
   set, and the url as its title when no title was supplied. *)
C18_ProvisionalFields ==
    [][/\ \A k \in DOMAIN log' :
             log'[k].kind = "create"
             => LET link == links'[log'[k].id]
                    net  == log'[k].net
                IN  /\ link.image_url # None
                          => link.image_check_status = "success"
                             /\ link.image_checked_at = now
                    /\ link.image_url = None
                          => link.image_check_status = "pending"
                             /\ link.image_checked_at = NoneInt
                    /\ (net.kind = "http" /\ net.image # None)
                          => link.image_url = net.image
                    /\ link.link_status = "active"
                    /\ link.last_checked_at = now
       /\ \A u \in Urls, in \in CreateInputs :
             (ApiCreate(u, in[1], in[2], in[3], in[4], in[5]) /\ resp'.code = "201")
             => LET link == links'[resp'.id]
                IN  /\ in[1] = NoneStr => link.title = link.url
                    /\ in[1] # NoneStr => link.title = in[1]
                    /\ link.image_url # None
                          <=> (in[2] # None \/ (in[5].kind = "http" /\ in[5].image # None))]_vars

C18_Witness ==
    /\ resp.op = "api_create"
    /\ resp.code = "201"
    /\ links[resp.id].title = links[resp.id].url
    /\ links[resp.id].image_url = None
    /\ links[resp.id].image_check_status = "pending"
    /\ links[resp.id].image_checked_at = NoneInt
    /\ \E i \in DOMAIN links : links[i].image_check_status = "success"

(* C19: a check of the missing-image job never replaces an image: it writes
   image_url only when the link has none and the fetch found one; a link that
   has an image when it is checked, one set after the batch was loaded
   included, keeps it. *)
C19_ImageNeverReplaced ==
    [][resp'.op = "check_next"
       => \A k \in DOMAIN log' :
             LET id == log'[k].id
             IN  /\ links[id].image_url # None
                       => links'[id].image_url = links[id].image_url
                 /\ links'[id].image_url # links[id].image_url
                       => log'[k].net.image = links'[id].image_url]_vars

(* C20: when the check of one link raises, that link ends with
   image_check_status failed, link_status error and last_checked_at stamped,
   and the job goes on with the remaining candidates of the batch. *)
C20_ExceptionIsolated ==
    [][(resp'.op = "check_next" /\ log'[1].kind = "exception")
       => LET id == log'[1].id
          IN  /\ id = Head(auditor.queue)
              /\ links'[id].image_check_status = "failed"
              /\ links'[id].link_status = "error"
              /\ links'[id].last_checked_at = now
              /\ auditor'.queue = Tail(auditor.queue)
              /\ auditor'.pc = IF Tail(auditor.queue) = <<>> THEN "idle" ELSE "checking"
              /\ \A j \in DOMAIN links : j # id => links'[j] = links[j]]_vars

C20_Witness ==
    /\ auditor.pc = "idle"
    /\ auditor.done = <<"exception", "check">>
    /\ links[1].image_check_status = "failed"
    /\ links[1].link_status = "error"
    /\ links[2].image_check_status \in {"success", "not_found"}

----------------------------------------------------------------------------
(* Properties of the retry mode, checked under SpecAudit *)

(* C21: after the failed-retry mode processed a link that had an image before
   the run, the link has an image: the one the retry found, or else the prior
   image, restored, also when the retry raised. *)
C21_RetryKeepsImage ==
    [][resp'.op = "check_broken"
       => \A k \in DOMAIN log' :
             LET id == log'[k].id
                 found == log'[k].net.kind = "http" /\ log'[k].net.image # None
             IN  links[id].image_url # None
                 => /\ links'[id].image_url # None
                    /\ links'[id].image_url =
                          (IF found THEN log'[k].net.image ELSE links[id].image_url)]_vars

C21_Witness ==
    /\ resp.op = "check_broken"
    /\ \E k \in DOMAIN log :
          /\ log[k].kind = "exception"
          /\ log[k].net = Raises
          /\ links[log[k].id].image_url = "mine.png"
          /\ links[log[k].id].image_check_status = "failed"

----------------------------------------------------------------------------
(* Properties of the two background paths, checked under SpecFields *)

AuditorColumns ==
    {"image_url", "image_check_status", "image_checked_at", "link_status",
     "http_status_code", "last_checked_at"}

(* C22: the title refresher writes title and nothing else of a link; the
   auditor, in both modes and on its exception path, never writes title, so a
   title stored while a check is running is still stored after the check. *)
C22_DisjointFields ==
    [][/\ resp'.op \in {"refresh_read", "refresh_write"}
          => /\ DOMAIN links' = DOMAIN links
             /\ \A id \in DOMAIN links :
                   /\ \A c \in AuditorColumns \cup {"url"} : links'[id][c] = links[id][c]
             /\ \A k \in DOMAIN log' : log'[k].wrote \subseteq {"title"}
       /\ resp'.op \in {"load_batch", "check_next", "check_broken"}
          => /\ DOMAIN links' = DOMAIN links
             /\ \A id \in DOMAIN links : links'[id].title = links[id].title
             /\ \A k \in DOMAIN log' : log'[k].wrote \subseteq AuditorColumns]_vars

C22_Witness ==
    /\ resp.op = "check_next"
    /\ \E id \in DOMAIN auditor.objs :
          /\ log[1].id = id
          /\ "last_checked_at" \in log[1].wrote
          /\ auditor.objs[id].title = links[id].url
          /\ links[id].title = Text("Page")

----------------------------------------------------------------------------
(* Properties of the title refresher, checked under SpecRefresh *)

(* A link whose title is still a placeholder: empty, or the url itself. *)
Placeholder(link) ==
    /\ TrimmedValue(link.url) # Text("")
    /\ \/ TrimmedValue(link.title) = Text("")
       \/ TrimmedValue(link.title) = TrimmedValue(link.url)

(* The title a fetch of the page at url came back with, "" for none. *)
PageTitle(net, url) ==
    IF net.kind = "http" /\ net.status < 400 /\ net.title # None
    THEN IF net.title = "<url>" THEN url ELSE Text(net.title)
    ELSE Text("")

(* C23: refresh_link_title_if_placeholder(id) fetches nothing and writes
   nothing when the link does not exist or its title, read again, is no
   placeholder; otherwise it fetches once and writes the title exactly when the
   fetched title is not empty and differs from the current one; when the fetch
   fails or brings no title the row stays as it is and no other attempt is
   scheduled. *)
C23_RefreshConditions ==
    [][/\ resp'.op = "refresh_read"
          => LET id == resp'.id
             IN  /\ links' = links
                 /\ log' = <<>>
                 /\ refreshq' = refreshq \ {id}
                 /\ (id \notin DOMAIN links \/ ~Placeholder(links[id]))
                       => refresher'.pc = "idle"
                 /\ (id \in DOMAIN links /\ Placeholder(links[id]))
                       => refresher' = Task("fetching", id, links[id])
       /\ resp'.op = "refresh_write"
          => LET id      == refresher.id
                 current == refresher.obj.title
                 fetched == PageTitle(log'[1].net, refresher.obj.url)
             IN  /\ refresher.pc = "fetching"
                 /\ Len(log') = 1
                 /\ log'[1].net.kind \in {"http", "neterr"}
                 /\ refresher'.pc = "idle"
                 /\ refreshq' = refreshq
                 /\ DOMAIN links' = DOMAIN links
                 /\ \A j \in DOMAIN links :
                       links'[j] = IF j = id /\ fetched # Text("") /\ fetched # current
                                   THEN [links[j] EXCEPT !.title = fetched]
                                   ELSE links[j]]_vars

C23_Witness ==
    /\ resp.op = "refresh_write"
    /\ resp.code = "written"
    /\ resp.id \in DOMAIN links
    /\ links[resp.id].title = Text("Page")
    /\ resp.id \notin refreshq

(* C30: the title refresher never overwrites a title a user chose: when an edit
   committed a title that is no placeholder before the refresher commits, also
   while the refresher's fetch was in flight, that title is the stored one
   after the refresher finished. *)
C30_UserTitleKept ==
    [][resp'.op = "refresh_write"
       => \A id \in DOMAIN links :
             ~Placeholder(links[id])
             => /\ id \in DOMAIN links'
                /\ links'[id].title = links[id].title]_vars

(* C24: for every request that creates or updates a link, a title refresh is
   scheduled if and only if the committed link needs one; it is scheduled
   after the commit only, and the request is answered before the fetch of the
   refresh starts. *)
C24_RefreshScheduledIffNeeded ==
    [][resp'.op \in {"api_create", "api_update", "web_update"}
       => /\ \A k \in DOMAIN log' :
                log'[k].kind \in {"create", "update"}
                => LET id == log'[k].id
                   IN  /\ id \in DOMAIN links'
                       /\ Placeholder(links'[id]) => id \in refreshq'
                       /\ ~Placeholder(links'[id]) => refreshq' = refreshq
          /\ (refreshq' \ refreshq) \subseteq DOMAIN links'
          /\ refresher' = refresher
          /\ \A k \in DOMAIN log' : log'[k].kind # "refresh"]_vars

----------------------------------------------------------------------------
(* Properties of overlapping create requests, checked under SpecRequests *)

(* C25: two overlapping create requests for the same URL, or for URLs equal
   after normalization, can both pass the duplicate check before either
   commits, and then both create a link: nothing stops a request that passed
   the check from storing its link, whatever was stored in between. *)
C25_PassedCheckAlwaysStores ==
    [][\A r \in DOMAIN requests :
          (requests[r].pc = "created" /\ requests'[r].pc = "done")
          => /\ requests'[r].res = "201"
             /\ Len(links') = Len(links) + 1
             /\ links'[Len(links')].url = HttpUrlStr(requests[r].url)]_vars

C25_Witness ==
    /\ Len(links) = 2
    /\ links[1].url # links[2].url
    /\ normalize_url(links[1].url) = normalize_url(links[2].url)
    /\ \E q, r \in DOMAIN requests :
          /\ q # r
          /\ requests[q].pc = "done" /\ requests[q].res = "201"
          /\ requests[r].pc = "done" /\ requests[r].res = "201"

(* C26: however concurrent get_or_create_collection calls with names equal
   ignoring case interleave, none fails, exactly one collection of that name
   exists afterwards, and every caller receives it; the caller that loses the
   insert race reads the existing row. *)
C26_OneCollectionPerName ==
    /\ \A r \in DOMAIN requests : requests[r].res # "500"
    /\ \A c, d \in collections : Lower(c) = Lower(d) => c = d
    /\ \A r \in DOMAIN requests :
          (requests[r].pc \in {"created", "done"} /\ requests[r].name # None
           /\ requests[r].res # "409")
          => /\ requests[r].coll # None
             /\ Lower(requests[r].coll) = Lower(requests[r].name)
             /\ requests[r].coll \in collections \cup {requests[r].own}
    /\ \A q, r \in DOMAIN requests :
          (/\ requests[q].pc \in {"created", "done"} /\ requests[q].coll # None
           /\ requests[r].pc \in {"created", "done"} /\ requests[r].coll # None
           /\ Lower(requests[q].name) = Lower(requests[r].name))
          => requests[q].coll = requests[r].coll

C26_Witness ==
    /\ resp.op = "request_flush"
    /\ resp.code = "IntegrityError"
    /\ requests[resp.id].name = "reading"
    /\ requests[resp.id].coll = "Reading"
    /\ collections = {"Reading"}

----------------------------------------------------------------------------
(* Properties of the image-check columns, checked under SpecImages *)

(* C27: in every committed state the image-check columns of a link agree:
   image_check_status success implies an image_url, and image_check_status
   pending implies no image_checked_at. *)
C27_ImageFieldsConsistent ==
    \A id \in DOMAIN links :
       /\ links[id].image_check_status = "success" => links[id].image_url # None
       /\ links[id].image_check_status = "pending" => links[id].image_checked_at = NoneInt

C27_Witness ==
    /\ auditor.pc = "restoring"
    /\ \E id \in DOMAIN auditor.objs :
          /\ auditor.objs[id].image_url # None
          /\ links[id].image_url = None
          /\ links[id].image_check_status = "not_found"
    /\ \E id \in DOMAIN links :
          /\ links[id].image_check_status = "success"
          /\ links[id].image_url = "og.png"

----------------------------------------------------------------------------
(* Progress of the missing-image job, checked under SpecLive *)

(* The link is one the query of the job selects. *)
IsCandidate(id) ==
    id \in DOMAIN links /\ MissingCandidate(links[id], now - DefaultMaxAge)

(* A run of the job has just fetched the page of the link and stamped it. *)
JustChecked(id) ==
    /\ resp.op = "check_missing"
    /\ \E k \in DOMAIN log : log[k].id = id /\ log[k].net # NoFetch
    /\ links[id].image_checked_at = now

(* C28: when the missing-image job is run again and again with one batch size
   and no link is added, every link that matches one of the three clauses is
   eventually fetched and stamped; links that are selected and then skipped by
   the cool-down do not hold the slots of the batch for ever. *)
C28_EveryCandidateChecked ==
    \A id \in 1..MaxLinks : IsCandidate(id) ~> JustChecked(id)

----------------------------------------------------------------------------
(* The cursor of the chat poller, checked under SpecPoll *)

(* The step is one turn of the for loop on the first update of the list. *)
LoopTurn == poller.pc = "loop" /\ poller.updates # <<>> /\ poller' # poller

(* The step is a request for updates. *)
Request_getUpdates == poller.pc = "poll" /\ poller'.pc = "loop"

(* The turn of the loop ended in the except of the loop. *)
Raised == LoopTurn /\ poller'.pc = "poll"

(* C29: the cursor last_update_id never decreases; it passes an update only
   when the message of that update has been processed; an update at or below
   the cursor is neither requested nor processed again; when the processing of
   an update raises, the cursor stays below it and the next answered request
   brings that update first, to be processed again. *)
C29_CursorAdvancesAfterProcessing ==
    /\ [][poller'.last_update_id >= poller.last_update_id]_vars
    /\ [](\A i \in 1..poller.last_update_id :
             poller.sent[i].kind # "other" => i \in poller.done)
    /\ [][Request_getUpdates =>
             /\ poller'.offset = NoneInt => poller.last_update_id = 0
             /\ poller'.offset # NoneInt => poller'.offset > poller.last_update_id
             /\ \A k \in DOMAIN poller'.updates :
                   poller'.updates[k].update_id > poller.last_update_id]_vars
    /\ [][LoopTurn => Head(poller.updates).update_id > poller.last_update_id]_vars
    /\ [][Raised => poller'.last_update_id < Head(poller.updates).update_id]_vars
    /\ [][(Request_getUpdates /\ poller'.answered /\ poller.failed # 0) =>
             /\ poller'.updates # <<>>
             /\ Head(poller'.updates).update_id = poller.failed]_vars

(* The second update raised after the first had moved the cursor, and the next
   request has brought it again. *)
C29_Witness ==
    /\ poller.failed = 2
    /\ poller.last_update_id = 1
    /\ poller.pc = "loop"
    /\ poller.offset = 2
    /\ poller.updates # <<>>
    /\ Head(poller.updates).update_id = 2

====
